---- MODULE Spec2Model ----
(***************************************************************************)
(* Model of elephant/csd.py: the dispatch/validation function CSD and the  *)
(* forward-model function FWD with its three integrators.                  *)
(*                                                                         *)
(* A call of CSD is a run of the specification Spec: Init draws the        *)
(* arguments, each action is one block of the function body, and the run   *)
(* ends with outcome "success" or with the name of the exception raised.   *)
(* A call of FWD is a run of SpecFWD.                                      *)
(*                                                                         *)
(* The estimator classes (elephant.current_source_density.KCSD) are not    *)
(* part of csd.py; their three operations are modelled from the written    *)
(* specification (Estimator_* definitions).                                *)
(***************************************************************************)
EXTENDS Integers, Sequences, FiniteSets, TLC

(* ---------- bounds of the model ---------- *)
\* largest number of signals / coordinates in a call
MaxN == 2
\* largest number of time samples of one signal
MaxT == 2
\* largest number of grid points per spatial axis of an estimate
MaxGrid == 2
\* largest number of electrodes handed to FWD
MaxEle == 2

(* ---------- program constants ---------- *)
\* "if len(ii) > 3" : the largest accepted number of coordinate components
MaxComponents == 3

NoMethod == "None"

available_1d == {"KCSD1D"}

available_2d == {"KCSD2D", "MoIKCSD"}

available_3d == {"KCSD3D"}

all_kernel_methods == {"KCSD1D", "KCSD2D", "KCSD3D", "MoIKCSD"}

\* the literal ['Rs', 'lambdas'] of the cv_params test
CvAllowed == {"Rs", "lambdas"}

(* ---------- input domains ---------- *)
\* method arguments: None, the four tags, and a name that is no tag
Methods == {NoMethod, "KCSD1D", "KCSD2D", "KCSD3D", "MoIKCSD", "foo"}

\* keys a cv_params dict may carry
CvKeys == {"Rs", "lambdas", "foo"}

\* A coordinate: n components; unit = it is a quantity (has .rescale).
\* A coordinate without unit is never measured by the code, so one length
\* stands for all of them.
Coordinate == [n : 0..(MaxComponents + 1), unit : {TRUE}] \cup [n : {1}, unit : {FALSE}]

DefaultCoordinate == [n |-> 1, unit |-> TRUE]

SeqUpTo(S, most) == UNION {[1..l -> S] : l \in 0..most}

RECURSIVE SeqMax(_)
SeqMax(s) == IF Len(s) = 1 THEN s[1]
             ELSE LET r == SeqMax(Tail(s)) IN IF s[1] > r THEN s[1] ELSE r

(* ---------- state of one CSD call ---------- *)
VARIABLES
  analog_signals,  \* argument: sequence of [samples, coordinate]
  coords_arg,      \* argument coords: [given, val]; given = FALSE is None
  method,          \* argument method
  cv_params,       \* argument cv_params, as its set of keys
  coords,          \* local coords after rescaling: sequence of component counts
  dim,             \* local dim (-1 before line 82)
  input_array,     \* local input_array: [made, rows, cols]
  calls,           \* estimator operations invoked so far, in order
  k_ele_pos,       \* coordinates the estimator was constructed with: [set, val]
  k_values,        \* what k.values() returned: [shape, data]
  estm_csd,        \* local estm_csd after the roll: [shape, data]
  output,          \* the returned object: [made, arr, unit_dim, annotations]
  pc,              \* position in the body of CSD
  outcome          \* "running", "success" or the exception raised

(* ---------- state of one FWD call ---------- *)
VARIABLES
  ele_xx,       \* argument: x positions of the electrodes
  ele_yy,       \* argument: [given, val]; given = FALSE is None
  ele_zz,       \* argument: [given, val]; given = FALSE is None
  fwd_dim,      \* local dim of FWD (0 before line 180)
  ii,           \* index of the electrode loop
  pots,         \* local pots: one [by, scaled] per electrode, by = 0 for zero
  m,            \* distance term of the last 2D/3D integration, squared, per grid point
  fwd_pc,       \* position in the body of FWD
  fwd_outcome   \* "running", "return" or the exception raised

fwdVars == <<ele_xx, ele_yy, ele_zz, fwd_dim, ii, pots, m, fwd_pc, fwd_outcome>>

csdVars == <<analog_signals, coords_arg, method, cv_params, coords, dim,
             input_array, calls, k_ele_pos, k_values, estm_csd, output, pc, outcome>>

(* ---------- arrays ---------- *)
\* index tuples of an array of the given shape (0-based entries)
Indices(shape) ==
  LET top == IF Len(shape) = 0 THEN 0 ELSE SeqMax(shape)
  IN {i \in [1..Len(shape) -> 0..top] : \A p \in 1..Len(shape) : i[p] < shape[p]}

EmptyArray == [shape |-> <<0>>, data |-> <<>>]

\* a.transpose(axes), axes 0-based as in numpy
Transpose(a, axes) ==
  LET n == Len(a.shape)
      newShape == [p \in 1..n |-> a.shape[axes[p] + 1]]
      old(j) == [q \in 1..n |-> j[CHOOSE p \in 1..n : axes[p] + 1 = q]]
  IN [shape |-> newShape,
      data  |-> [j \in Indices(newShape) |-> a.data[old(j)]]]

\* list.remove(x) followed by list.insert(at, x) on range(n), 0-based
MoveAxis(n, axis, at) ==
  LET rest == [p \in 1..(n - 1) |-> IF p - 1 < axis THEN p - 1 ELSE p]
  IN [p \in 1..n |-> IF p - 1 < at THEN rest[p]
                     ELSE IF p - 1 = at THEN axis
                     ELSE rest[p - 1]]

\* mutant: the roll leaves the axes where they are
RollAxisIdentity(a, axis, start) == a

\* numpy.rollaxis(a, axis, start)
RollAxis(a, axis, start) ==
  LET n  == Len(a.shape)
      ax == IF axis < 0 THEN axis + n ELSE axis
      s0 == IF start < 0 THEN start + n ELSE start
      s1 == IF ax < s0 THEN s0 - 1 ELSE s0
  IN IF ax = s1 THEN a ELSE Transpose(a, MoveAxis(n, ax, s1))

(* ---------- the estimator (elephant.current_source_density.KCSD) ---------- *)
\* spatial dimensionality of the estimator class behind a tag
MethodDim(tag) ==
  IF tag \in available_1d THEN 1 ELSE IF tag \in available_2d THEN 2 ELSE 3

\* the constructor takes an N x dim coordinate array and an N x T matrix
Estimator_accepts(ele_pos, matrix, tag) ==
  /\ Len(ele_pos) = matrix.rows
  /\ \A i \in 1..Len(ele_pos) : ele_pos[i] = MethodDim(tag)

\* cross_validate takes the candidates Rs and lambdas and nothing else
Estimator_cross_validate_accepts(keys) == keys \subseteq CvAllowed

\* values(): an estimate indexed [space..., time]; every entry is tagged
\* with its own index so that entries can be told apart
Estimator_values(grid, T) ==
  LET shape == grid \o <<T>>
  IN [shape |-> shape, data |-> [i \in Indices(shape) |-> i]]

(* ---------- CSD ---------- *)
\* Python's "a and b" on two collections: a when a is empty, else b
PyAnd(a, b) == IF a = {} THEN a ELSE b

Ragged(cs) == \E i \in 1..Len(cs) : cs[i] # cs[1]

NoOutput == [made |-> FALSE, arr |-> EmptyArray, unit_dim |-> 0, annotations |-> {}]

Raise(kind) == /\ outcome' = kind
               /\ pc' = "done"

InitCSD ==
  /\ coords_arg \in {[given |-> FALSE, val |-> <<>>]}
                    \cup {[given |-> TRUE, val |-> c] : c \in SeqUpTo(Coordinate, MaxN)}
  /\ analog_signals \in
        IF coords_arg.given
        THEN SeqUpTo([samples : 1..MaxT, coordinate : {DefaultCoordinate}], MaxN)
        ELSE SeqUpTo([samples : 1..MaxT, coordinate : Coordinate], MaxN)
  /\ method \in Methods
  /\ cv_params \in SUBSET CvKeys
  /\ coords = <<>>
  /\ dim = -1
  /\ input_array = [made |-> FALSE, rows |-> 0, cols |-> 0]
  /\ calls = <<>>
  /\ k_ele_pos = [set |-> FALSE, val |-> <<>>]
  /\ k_values = EmptyArray
  /\ estm_csd = EmptyArray
  /\ output = NoOutput
  /\ pc = "rescale"
  /\ outcome = "running"

IdleCSD ==
  /\ coords_arg = [given |-> FALSE, val |-> <<>>]
  /\ analog_signals = <<>>
  /\ method = NoMethod
  /\ cv_params = {}
  /\ coords = <<>>
  /\ dim = -1
  /\ input_array = [made |-> FALSE, rows |-> 0, cols |-> 0]
  /\ calls = <<>>
  /\ k_ele_pos = [set |-> FALSE, val |-> <<>>]
  /\ k_values = EmptyArray
  /\ estm_csd = EmptyArray
  /\ output = NoOutput
  /\ pc = "idle"
  /\ outcome = "running"

\* lines 63-74: take the coordinates and rescale them to mm
Rescale ==
  /\ pc = "rescale"
  /\ LET src == IF coords_arg.given THEN coords_arg.val
                ELSE [i \in 1..Len(analog_signals) |-> analog_signals[i].coordinate]
     IN IF \E i \in 1..Len(src) : ~src[i].unit
        THEN /\ Raise("AttributeError")
             /\ UNCHANGED coords
        ELSE /\ coords' = [i \in 1..Len(src) |-> src[i].n]
             /\ pc' = "check"
             /\ UNCHANGED outcome
  /\ UNCHANGED <<analog_signals, coords_arg, method, cv_params, dim, input_array,
                 calls, k_ele_pos, k_values, estm_csd, output>>
  /\ UNCHANGED fwdVars

\* mutant: the method is not compared with the list of the dimensionality
MethodRejectedNever(d, tag) == FALSE

\* lines 83-88: the method does not belong to the dimensionality
MethodRejected(d, tag) ==
  \/ d = 1 /\ tag \notin available_1d
  \/ d = 2 /\ tag \notin available_2d
  \/ d = 3 /\ tag \notin available_3d

\* mutant: the two lengths are not compared
CountMismatchNever(cs, sigs) == FALSE

\* line 77
CountMismatch(cs, sigs) == Len(cs) # Len(sigs)

\* lines 75-88: validation of the arguments
CheckArguments ==
  /\ pc = "check"
  /\ IF method = NoMethod
     THEN Raise("ValueError") /\ UNCHANGED dim
     ELSE IF CountMismatch(coords, analog_signals)
     THEN Raise("ValueError") /\ UNCHANGED dim
     ELSE IF \E i \in 1..Len(coords) : coords[i] > MaxComponents
     THEN Raise("ValueError") /\ UNCHANGED dim
     ELSE IF Len(coords) = 0
     THEN Raise("IndexError") /\ UNCHANGED dim
     ELSE IF MethodRejected(coords[1], method)
     THEN Raise("ValueError") /\ dim' = coords[1]
     ELSE /\ dim' = coords[1]
          /\ pc' = "assemble"
          /\ UNCHANGED outcome
  /\ UNCHANGED <<analog_signals, coords_arg, method, cv_params, coords, input_array,
                 calls, k_ele_pos, k_values, estm_csd, output>>
  /\ UNCHANGED fwdVars

\* lines 90-92: the potential matrix; a row takes a signal of the same
\* number of samples, or of one sample (broadcast), and nothing else
AssembleInput ==
  /\ pc = "assemble"
  /\ LET rows == Len(analog_signals)
         cols == analog_signals[1].samples
     IN /\ input_array' = [made |-> TRUE, rows |-> rows, cols |-> cols]
        /\ IF \E i \in 1..rows : analog_signals[i].samples \notin {cols, 1}
           THEN Raise("ValueError")
           ELSE pc' = "construct" /\ UNCHANGED outcome
  /\ UNCHANGED <<analog_signals, coords_arg, method, cv_params, coords, dim,
                 calls, k_ele_pos, k_values, estm_csd, output>>
  /\ UNCHANGED fwdVars

\* lines 93-95 (and 111 when the branch is skipped): build the estimator
Construct ==
  /\ pc = "construct"
  /\ IF method \notin all_kernel_methods
     THEN \* line 111 reads output, which was never assigned
          /\ Raise("UnboundLocalError")
          /\ UNCHANGED <<calls, k_ele_pos>>
     ELSE \* np.array(coords) of rows of different lengths: an object array,
          \* or ValueError, depending on the numpy in use
          \/ /\ Ragged(coords)
             /\ Raise("ValueError")
             /\ UNCHANGED <<calls, k_ele_pos>>
          \/ /\ calls' = Append(calls, "construct")
             /\ k_ele_pos' = [set |-> TRUE, val |-> coords]
             /\ IF Estimator_accepts(coords, input_array, method)
                THEN pc' = "cross_validate" /\ UNCHANGED outcome
                ELSE Raise("EstimatorError")
  /\ UNCHANGED <<analog_signals, coords_arg, method, cv_params, coords, dim,
                 input_array, k_values, estm_csd, output>>
  /\ UNCHANGED fwdVars

\* mutant: cv_params is never looked at
CrossValidationRequestedNever(tag, cv) == FALSE

\* line 96
CrossValidationRequested(tag, cv) == tag \in all_kernel_methods /\ cv # {}

\* lines 96-99: the optional cross-validation
CrossValidate ==
  /\ pc = "cross_validate"
  /\ IF CrossValidationRequested(method, cv_params)
     THEN IF Cardinality(PyAnd(cv_params, CvAllowed)) # 2
          THEN Raise("TypeError") /\ UNCHANGED calls
          ELSE /\ calls' = Append(calls, "cross_validate")
               /\ IF Estimator_cross_validate_accepts(cv_params)
                  THEN pc' = "values" /\ UNCHANGED outcome
                  ELSE Raise("TypeError")
     ELSE /\ pc' = "values"
          /\ UNCHANGED <<calls, outcome>>
  /\ UNCHANGED <<analog_signals, coords_arg, method, cv_params, coords, dim,
                 input_array, k_ele_pos, k_values, estm_csd, output>>
  /\ UNCHANGED fwdVars

\* lines 105-110
Annotations(d) == IF d = 1 THEN {"x_coords"}
                  ELSE IF d = 2 THEN {"x_coords", "y_coords"}
                  ELSE IF d = 3 THEN {"x_coords", "y_coords", "z_coords"}
                  ELSE {}

\* lines 100-111: read the estimate, roll the time axis, package, return
ReadValues ==
  /\ pc = "values"
  /\ \E grid \in [1..MethodDim(method) -> 1..MaxGrid] :
       LET est == Estimator_values(grid, input_array.cols)
           rolled == RollAxis(est, -1, 0)
       IN /\ k_values' = est
          /\ estm_csd' = rolled
          /\ output' = [made |-> TRUE, arr |-> rolled, unit_dim |-> dim,
                         annotations |-> Annotations(dim)]
  /\ calls' = Append(calls, "values")
  /\ outcome' = "success"
  /\ pc' = "done"
  /\ UNCHANGED <<analog_signals, coords_arg, method, cv_params, coords, dim,
                 input_array, k_ele_pos>>
  /\ UNCHANGED fwdVars

(* ---------- FWD ---------- *)
\* the distance floor 0.0000001 of integrate_2D and integrate_3D; the unit
\* of length of the model is half of it
Floor == 2

\* res: grid points per axis of the charge grid
Res == 2

\* np.linspace(lims[0], lims[1], res): the limits are chosen so that
\* neighbouring grid points are one floor apart
Linspace == [g \in 0..(Res - 1) |-> g * Floor]

\* electrode positions: on a grid point, closer to it than the floor, at the floor
ElePositions == 0..Floor

Optional(S) == {[given |-> FALSE, val |-> <<>>]} \cup {[given |-> TRUE, val |-> v] : v \in S}

Sq(a) == a * a

\* mutant: the distance term is used as computed
ClampNone(d2) == d2

\* m[m < 0.0000001] = 0.0000001, on the squares (m is never negative)
Clamp(d2) == IF d2 < Sq(Floor) THEN Sq(Floor) ELSE d2

\* integrate_2D: the distance term over the charge grid
integrate_2D(x, y) ==
  [g \in (0..(Res - 1)) \X (0..(Res - 1)) |->
      Clamp(Sq(x - Linspace[g[1]]) + Sq(y - Linspace[g[2]]))]

\* integrate_3D: the distance term over the charge grid
integrate_3D(x, y, z) ==
  [g \in (0..(Res - 1)) \X (0..(Res - 1)) \X (0..(Res - 1)) |->
      Clamp(Sq(x - Linspace[g[1]]) + Sq(y - Linspace[g[2]]) + Sq(z - Linspace[g[3]]))]

\* mutant: the y array is looked at before the z array
SelectDimYFirst(yy, zz) == IF yy.given THEN 2 ELSE IF zz.given THEN 3 ELSE 1

\* lines 180-184
SelectDim(yy, zz) == IF zz.given THEN 3 ELSE IF yy.given THEN 2 ELSE 1

ZeroPot == [by |-> 0, scaled |-> FALSE]

InitFWD ==
  /\ ele_xx \in SeqUpTo(ElePositions, MaxEle)
  /\ ele_yy \in Optional(SeqUpTo(ElePositions, MaxEle))
  /\ ele_zz \in Optional(SeqUpTo(ElePositions, MaxEle))
  /\ fwd_dim = 0
  /\ ii = 0
  /\ pots = <<>>
  /\ m = <<>>
  /\ fwd_pc = "setup"
  /\ fwd_outcome = "running"

IdleFWD ==
  /\ ele_xx = <<>>
  /\ ele_yy = [given |-> FALSE, val |-> <<>>]
  /\ ele_zz = [given |-> FALSE, val |-> <<>>]
  /\ fwd_dim = 0
  /\ ii = 0
  /\ pots = <<>>
  /\ m = <<>>
  /\ fwd_pc = "idle"
  /\ fwd_outcome = "running"

FwdRaise(kind) == /\ fwd_outcome' = kind
                  /\ fwd_pc' = "done"

\* lines 180-193 and the charge grid of the chosen branch (195-196, 201-203, 208-214)
FWD_Setup ==
  /\ fwd_pc = "setup"
  /\ fwd_dim' = SelectDim(ele_yy, ele_zz)
  /\ pots' = [e \in 1..Len(ele_xx) |-> ZeroPot]
  /\ ii' = 0
  /\ fwd_pc' = "loop"
  /\ UNCHANGED <<ele_xx, ele_yy, ele_zz, m, fwd_outcome>>
  /\ UNCHANGED csdVars

\* one pass of "for ii in range(len(ele_xx))": lines 197-198, 204-205, 215-219
FWD_Integrate ==
  /\ fwd_pc = "loop"
  /\ ii < Len(ele_xx)
  /\ IF fwd_dim = 1
     THEN /\ pots' = [pots EXCEPT ![ii + 1] = [by |-> 1, scaled |-> FALSE]]
          /\ ii' = ii + 1
          /\ UNCHANGED <<m, fwd_pc, fwd_outcome>>
     ELSE IF ~ele_yy.given
     THEN FwdRaise("TypeError") /\ UNCHANGED <<pots, ii, m>>
     ELSE IF ii >= Len(ele_yy.val)
     THEN FwdRaise("IndexError") /\ UNCHANGED <<pots, ii, m>>
     ELSE IF fwd_dim = 2
     THEN /\ m' = integrate_2D(ele_xx[ii + 1], ele_yy.val[ii + 1])
          /\ pots' = [pots EXCEPT ![ii + 1] = [by |-> 2, scaled |-> FALSE]]
          /\ ii' = ii + 1
          /\ UNCHANGED <<fwd_pc, fwd_outcome>>
     ELSE IF ii >= Len(ele_zz.val)
     THEN FwdRaise("IndexError") /\ UNCHANGED <<pots, ii, m>>
     ELSE /\ m' = integrate_3D(ele_xx[ii + 1], ele_yy.val[ii + 1], ele_zz.val[ii + 1])
          /\ pots' = [pots EXCEPT ![ii + 1] = [by |-> 3, scaled |-> FALSE]]
          /\ ii' = ii + 1
          /\ UNCHANGED <<fwd_pc, fwd_outcome>>
  /\ UNCHANGED <<ele_xx, ele_yy, ele_zz, fwd_dim>>
  /\ UNCHANGED csdVars

\* end of the loop: the scaling (lines 199, 206, 220) and "return pots"
FWD_Return ==
  /\ fwd_pc = "loop"
  /\ ii = Len(ele_xx)
  /\ pots' = [e \in 1..Len(pots) |-> [pots[e] EXCEPT !.scaled = TRUE]]
  /\ fwd_outcome' = "return"
  /\ fwd_pc' = "done"
  /\ UNCHANGED <<ele_xx, ele_yy, ele_zz, fwd_dim, ii, m>>
  /\ UNCHANGED csdVars

(* ---------- specifications ---------- *)
vars == <<csdVars, fwdVars>>

Init == InitCSD /\ IdleFWD

Next == Rescale \/ CheckArguments \/ AssembleInput \/ Construct
          \/ CrossValidate \/ ReadValues

\* one call of CSD
Spec == Init /\ [][Next]_vars

FwdInit == IdleCSD /\ InitFWD

FwdNext == FWD_Setup \/ FWD_Integrate \/ FWD_Return

\* one call of FWD
SpecFWD == FwdInit /\ [][FwdNext]_vars

(* ---------- the arguments of a call, as the claims speak of them ---------- *)
\* the electrode coordinates of the call, supplied or taken from the channels
ArgCoords == IF coords_arg.given THEN coords_arg.val
             ELSE [i \in 1..Len(analog_signals) |-> analog_signals[i].coordinate]

HasUnits == \A i \in 1..Len(ArgCoords) : ArgCoords[i].unit

\* the signals fit the rows of one matrix
Stackable ==
  \A i \in 1..Len(analog_signals) :
     analog_signals[i].samples \in {analog_signals[1].samples, 1}

\* the allowed set of a dimensionality, as the claim lists it
AllowedFor(d) == IF d = 1 THEN {"KCSD1D"}
                 ELSE IF d = 2 THEN {"KCSD2D", "MoIKCSD"}
                 ELSE {"KCSD3D"}

\* d is the dimensionality of the call: d components in every coordinate,
\* as many coordinates as signals
DimensionedCall(d) ==
  /\ Len(ArgCoords) >= 1
  /\ Len(ArgCoords) = Len(analog_signals)
  /\ \A i \in 1..Len(ArgCoords) : ArgCoords[i].n = d

\* a call that lines 63-92 let through to the estimator
WellFormedCall ==
  /\ HasUnits
  /\ Stackable
  /\ \E d \in 1..MaxComponents : DimensionedCall(d) /\ method \in AllowedFor(d)

BadCvParams == cv_params # {} /\ ~(cv_params \subseteq {"Rs", "lambdas"})

(* ---------- claims about CSD ---------- *)

\* C1 as claimed: for d in {1,2,3}, equal counts and coordinates of length d,
\* a finished call has raised ValueError when the tag is outside the allowed
\* set of d, and has reached the estimator when the tag is inside it.
C1_AsClaimed ==
  \A d \in 1..3 :
     (pc = "done" /\ method # NoMethod /\ DimensionedCall(d)) =>
        IF method \in AllowedFor(d) THEN calls # <<>> ELSE outcome = "ValueError"

\* C1 as amended: the same, for coordinates that carry units; the estimator
\* is reached when, in addition, the signals fit the rows of one matrix.
C1_MethodMatchesDimension ==
  \A d \in 1..3 :
     (pc = "done" /\ method # NoMethod /\ DimensionedCall(d) /\ HasUnits) =>
        IF method \in AllowedFor(d)
        THEN Stackable => (calls # <<>> /\ calls[1] = "construct")
        ELSE outcome = "ValueError"

C1_Witness ==
  /\ pc = "done"
  /\ DimensionedCall(2) /\ HasUnits /\ Stackable
  /\ Len(ArgCoords) = 2
  /\ method = "MoIKCSD"
  /\ calls # <<>>

\* C2 as claimed: a call that is otherwise well formed and whose cv_params
\* holds a key outside {Rs, lambdas} never constructs the estimator and
\* ends with TypeError.
C2_AsClaimed ==
  (WellFormedCall /\ BadCvParams) =>
     /\ calls = <<>>
     /\ pc = "done" => outcome = "TypeError"

\* C3 as claimed: with a method given and a number of coordinates different
\* from the number of signals, the call never builds the potential matrix,
\* never invokes the estimator, and ends with ValueError.
C3_AsClaimed ==
  (method # NoMethod /\ Len(ArgCoords) # Len(analog_signals)) =>
     /\ ~input_array.made
     /\ calls = <<>>
     /\ pc = "done" => outcome = "ValueError"

\* C3 as amended: the same, for coordinates that carry units.
C3_CountMismatchRejected ==
  (method # NoMethod /\ Len(ArgCoords) # Len(analog_signals) /\ HasUnits) =>
     /\ ~input_array.made
     /\ calls = <<>>
     /\ pc = "done" => outcome = "ValueError"

C3_Witness ==
  /\ pc = "done"
  /\ method = "KCSD1D"
  /\ HasUnits
  /\ Len(ArgCoords) = 1 /\ Len(analog_signals) = 2
  /\ outcome = "ValueError"

\* C4 as claimed: every call ends in success or in one of the declared
\* rejections AttributeError, ValueError, TypeError.
C4_AsClaimed ==
  pc = "done" => outcome \in {"success", "AttributeError", "ValueError", "TypeError"}

\* C5 as claimed: a successful call with cv_params = {} has cross-validated
\* before it read the estimate.
C5_AsClaimed ==
  (pc = "done" /\ outcome = "success" /\ cv_params = {}) =>
     calls = <<"construct", "cross_validate", "values">>

C8_AsClaimed ==
  k_ele_pos.set =>
     /\ \A i \in 1..Len(k_ele_pos.val) : k_ele_pos.val[i] = k_ele_pos.val[1]
     /\ k_ele_pos.val[1] \in 1..3
     /\ Len(k_ele_pos.val) = input_array.rows

\* the first d of the axis names x, y, z
AxisNames(d) == {<<"x_coords", "y_coords", "z_coords">>[p] : p \in 1..d}

\* C10: on success, for an estimate of shape (n1,..,nd,T), the result has
\* shape (T,n1,..,nd), result[t,i1,..,id] = estimate[i1,..,id,t], and the
\* attached axes are exactly the first d of x, y, z.
C10_TimeAxisFirst ==
  outcome = "success" =>
     LET e == k_values
         r == output.arr
         n == Len(e.shape)
         front(i) == <<i[n]>> \o SubSeq(i, 1, n - 1)
     IN /\ output.made
        /\ r.shape = front(e.shape)
        /\ DOMAIN r.data = Indices(r.shape)
        /\ \A i \in Indices(e.shape) : r.data[front(i)] = e.data[i]
        /\ output.annotations = AxisNames(n - 1)
        /\ Cardinality(output.annotations) = n - 1

C10_Witness ==
  /\ outcome = "success"
  /\ k_values.shape = <<1, 2, 1, 2>>
  /\ output.arr.shape = <<2, 1, 2, 1>>
  /\ output.arr.data[<<1, 0, 1, 0>>] = <<0, 1, 0, 1>>

(* ---------- claims about FWD ---------- *)
\* the dimensionality the claim assigns to the optional arrays
ClaimedDim == IF ele_zz.given THEN 3 ELSE IF ele_yy.given THEN 2 ELSE 1

\* every array the integrator of the dimensionality reads has an entry for
\* every electrode
ArraysCoverElectrodes ==
  /\ ClaimedDim >= 2 => (ele_yy.given /\ Len(ele_yy.val) >= Len(ele_xx))
  /\ ClaimedDim = 3 => Len(ele_zz.val) >= Len(ele_xx)

\* C6 as claimed: FWD returns one potential per entry of ele_xx, each from
\* the 3D integrator iff ele_zz is supplied, from the 2D integrator iff
\* ele_zz is absent and ele_yy is supplied, from the 1D integrator otherwise.
C6_AsClaimed ==
  fwd_pc = "done" =>
     /\ fwd_outcome = "return"
     /\ Len(pots) = Len(ele_xx)
     /\ \A e \in 1..Len(pots) : pots[e].by = ClaimedDim

\* C6 as amended: FWD selects the dimensionality as claimed; it returns one
\* potential per entry of ele_xx, each from the integrator of that
\* dimensionality, when the arrays that integrator reads cover the electrodes.
C6_DimensionFromArrays ==
  /\ fwd_pc \in {"loop", "done"} => fwd_dim = ClaimedDim
  /\ (fwd_pc = "done" /\ ArraysCoverElectrodes) =>
        /\ fwd_outcome = "return"
        /\ Len(pots) = Len(ele_xx)
        /\ \A e \in 1..Len(pots) : pots[e].by = ClaimedDim /\ pots[e].scaled

C6_Witness ==
  /\ fwd_pc = "done"
  /\ fwd_outcome = "return"
  /\ ele_zz.given /\ ele_yy.given
  /\ Len(ele_xx) = 2
  /\ \A e \in 1..2 : pots[e].by = 3

\* C9: in the 2D and 3D integrators the distance term is at least the floor
\* at every charge-grid point, for every electrode, hence strictly positive.
C9_DistanceFloor ==
  \A g \in DOMAIN m : m[g] >= Sq(Floor) /\ m[g] > 0

\* an electrode on a grid point has been integrated in 2D
C9_Witness ==
  /\ fwd_dim = 2
  /\ ii = 1
  /\ ele_xx[1] = Linspace[1] /\ ele_yy.val[1] = Linspace[0]
  /\ m[<<1, 0>>] = Sq(Floor)

====
